---- MODULE Spec2Model ----
(***************************************************************************)
(* thatchertiler: the endpoints of the factory application                 *)
(* (thatchertiler/factory.py), of the flat application                     *)
(* (thatchertiler/main.py) and the response models (thatchertiler/model.py)*)
(*                                                                         *)
(* Text that is parsed or composed (URLs, query strings) is a sequence of  *)
(* one-character strings; identifiers that are only compared or suffixed   *)
(* (layer ids, keys of JSON documents) are TLA+ strings.  A Python dict is *)
(* a function whose domain is the set of keys present; a key whose value   *)
(* is None in a dict handed to the program is modelled as an absent key.   *)
(***************************************************************************)
EXTENDS Integers, Sequences, FiniteSets, TLC

(***************************************************************************)
(* Bounds of the model.                                                    *)
(***************************************************************************)
\* longest list of query parameters a request carries
MaxParams == 2
\* longest vector_layers list of an archive's metadata
MaxLayers == 2

(***************************************************************************)
(* Text helpers.                                                           *)
(***************************************************************************)
RECURSIVE Concat(_)
\* "".join(parts)
Concat(parts) ==
    IF parts = <<>> THEN <<>> ELSE Head(parts) \o Concat(Tail(parts))

RECURSIVE Join(_, _)
\* sep.join(parts)
Join(parts, sep) ==
    IF parts = <<>> THEN <<>>
    ELSE IF Len(parts) = 1 THEN parts[1]
    ELSE parts[1] \o sep \o Join(Tail(parts), sep)

\* s.startswith(tok)
StartsWith(s, tok) ==
    /\ Len(s) >= Len(tok)
    /\ SubSeq(s, 1, Len(tok)) = tok

\* s with its first n characters dropped
Drop(s, n) == SubSeq(s, n + 1, Len(s))

\* 1-based index of the first occurrence of tok in s, 0 when there is none
Find(s, tok) ==
    LET at == {i \in 1..(Len(s) - Len(tok) + 1) :
                  SubSeq(s, i, i + Len(tok) - 1) = tok}
    IN IF at = {} THEN 0 ELSE CHOOSE i \in at : \A j \in at : i <= j

\* tok in s
Contains(s, tok) == Find(s, tok) # 0

RECURSIVE Split(_, _)
\* s.split(sep) for a one-character separator
Split(s, sep) ==
    LET i == Find(s, <<sep>>) IN
    IF i = 0 THEN <<s>>
    ELSE <<SubSeq(s, 1, i - 1)>> \o Split(Drop(s, i), sep)

\* s.split(sep, 1)
SplitOnce(s, sep) ==
    LET i == Find(s, <<sep>>) IN
    IF i = 0 THEN <<s>> ELSE <<SubSeq(s, 1, i - 1), Drop(s, i)>>

RECURSIVE Replace(_, _, _)
\* s.replace(tok, rep), tok not empty
Replace(s, tok, rep) ==
    LET i == Find(s, tok) IN
    IF i = 0 THEN s
    ELSE SubSeq(s, 1, i - 1) \o rep \o Replace(Drop(s, i + Len(tok) - 1), tok, rep)

RECURSIVE LStrip(_, _)
\* s.lstrip(c)
LStrip(s, c) ==
    IF s # <<>> /\ Head(s) = c THEN LStrip(Tail(s), c) ELSE s

RECURSIVE RStrip(_, _)
\* s.rstrip(c)
RStrip(s, c) ==
    IF s # <<>> /\ s[Len(s)] = c THEN RStrip(SubSeq(s, 1, Len(s) - 1), c) ELSE s

Digits == <<"0", "1", "2", "3", "4", "5", "6", "7", "8", "9">>

RECURSIVE IntToStr(_)
\* str(n) for n >= 0
IntToStr(n) ==
    IF n < 10 THEN <<Digits[n + 1]>>
    ELSE IntToStr(n \div 10) \o <<Digits[(n % 10) + 1]>>

IsDigit(c) == \E i \in 1..10 : Digits[i] = c

DigitValue(c) == (CHOOSE i \in 1..10 : Digits[i] = c) - 1

\* whether int(s) succeeds for a path segment (an optional sign is not modelled)
IsInt(s) == s # <<>> /\ \A i \in 1..Len(s) : IsDigit(s[i])

RECURSIVE StrToInt(_)
\* int(s) for a string of digits
StrToInt(s) ==
    IF Len(s) <= 1 THEN DigitValue(s[1])
    ELSE 10 * StrToInt(SubSeq(s, 1, Len(s) - 1)) + DigitValue(s[Len(s)])

(***************************************************************************)
(* urllib.parse.urlencode and the query-string parser of the request.      *)
(***************************************************************************)
\* the percent-encoding of the characters of the model that quote() does not
\* keep (letters, digits and _.-~ are always kept)
HexCode ==
    (" " :> <<"2", "0">>) @@ ("#" :> <<"2", "3">>) @@ ("%" :> <<"2", "5">>) @@
    ("&" :> <<"2", "6">>) @@ ("+" :> <<"2", "B">>) @@ ("/" :> <<"2", "F">>) @@
    (":" :> <<"3", "A">>) @@ ("=" :> <<"3", "D">>) @@ ("?" :> <<"3", "F">>) @@
    ("{" :> <<"7", "B">>) @@ ("}" :> <<"7", "D">>)

\* quote_plus keeping reserved characters as they are (the mutant of QuotePlusChar)
QuotePlusCharRaw(c) == <<c>>

\* quote_plus of one character: a space becomes "+", a reserved character %XX
QuotePlusChar(c) ==
    IF c = " " THEN <<"+">>
    ELSE IF c \in DOMAIN HexCode THEN <<"%">> \o HexCode[c]
    ELSE <<c>>

quote_plus(s) == Concat([i \in 1..Len(s) |-> QuotePlusChar(s[i])])

RECURSIVE EncodePairs(_)
EncodePairs(query) ==
    IF query = <<>> THEN <<>>
    ELSE <<quote_plus(query[1][1]) \o <<"=">> \o quote_plus(query[1][2])>>
             \o EncodePairs(Tail(query))

\* urlencode(query) for a list of (key, value) pairs
urlencode(query) == Join(EncodePairs(query), <<"&">>)

\* the text that followed a "%": two hex digits become the character they
\* encode, anything else keeps its "%"
UnquoteItem(item) ==
    IF /\ Len(item) >= 2
       /\ \E c \in DOMAIN HexCode : HexCode[c] = <<item[1], item[2]>>
    THEN <<CHOOSE c \in DOMAIN HexCode : HexCode[c] = <<item[1], item[2]>>>>
             \o Drop(item, 2)
    ELSE <<"%">> \o item

\* unquote(s): s is split at "%" and every piece after the first is decoded
unquote(s) ==
    LET bits == Split(s, "%") IN
    bits[1] \o Concat([i \in 1..(Len(bits) - 1) |-> UnquoteItem(bits[i + 1])])

\* one name=value field of a query string
ParseField(field) ==
    LET nv == SplitOnce(field, "=")
        name == unquote(Replace(nv[1], <<"+">>, <<" ">>))
        value == IF Len(nv) = 2 THEN unquote(Replace(nv[2], <<"+">>, <<" ">>))
                 ELSE <<>>
    IN <<name, value>>

RECURSIVE ParseFields(_)
ParseFields(fields) ==
    IF fields = <<>> THEN <<>>
    ELSE IF Head(fields) = <<>> THEN ParseFields(Tail(fields))
    ELSE <<ParseField(Head(fields))>> \o ParseFields(Tail(fields))

\* request.query_params._list: parse_qsl(query_string, keep_blank_values=True)
parse_qsl(qs) == ParseFields(Split(qs, "&"))

(***************************************************************************)
(* thatchertiler/model.py: the response models.                            *)
(* Coordinates are integers in units of a millionth of a degree.           *)
(***************************************************************************)
Deg(n) == n * 1000000

\* the full-earth envelope, west = -180
FullEarthBounds == <<Deg(-180), -85051129, Deg(180), 85051129>>

\* TileJSON.bounds when none is given: [180, -85.05112877980659, 180, 85.0511287798066]
DefaultBounds == <<Deg(180), -85051129, Deg(180), 85051129>>

\* d.get(key) is truthy: the key is present and its value is not an empty list
Truthy(d, key) == key \in DOMAIN d /\ d[key] # <<>>

\* the fields of TileJSON and of LayerJSON that are Optional and have no default
TileJSONOptional ==
    {"name", "description", "attribution", "template", "legend",
     "vector_layers", "grids", "data", "fillzoom", "center"}

LayerJSONOptional == {"description", "minzoom", "maxzoom"}

\* LayerJSON(**d): unknown keys are ignored, fields defaults to {}
LayerJSON(d) ==
    [k \in {"id", "fields"} \cup (DOMAIN d \cap LayerJSONOptional) |->
        IF k = "fields" /\ "fields" \notin DOMAIN d THEN <<>> ELSE d[k]]

\* compute_center deriving the center whatever is supplied (the mutant)
compute_center_always(values) ==
    LET bounds == values["bounds"] IN
    [k \in DOMAIN values \cup {"center"} |->
        IF k = "center"
        THEN <<(bounds[1] + bounds[3]) \div 2,
               (bounds[2] + bounds[4]) \div 2,
               values["minzoom"]>>
        ELSE values[k]]

\* TileJSON.compute_center: the root validator
compute_center(values) ==
    LET bounds == values["bounds"] IN
    IF ~ Truthy(values, "center")
    THEN [k \in DOMAIN values \cup {"center"} |->
            IF k = "center"
            THEN <<(bounds[1] + bounds[3]) \div 2,
                   (bounds[2] + bounds[4]) \div 2,
                   values["minzoom"]>>
            ELSE values[k]]
    ELSE values

\* the field defaults of TileJSON, for the fields kwargs does not give
TileJSONDefaults ==
    [tilejson |-> "3.0.0", version |-> "1.0.0", scheme |-> "xyz",
     minzoom |-> 0, maxzoom |-> 30, bounds |-> DefaultBounds]

\* whether the field validation of TileJSON(**kwargs) passes
TileJSONValid(kwargs) ==
    /\ "tiles" \in DOMAIN kwargs
    /\ "minzoom" \in DOMAIN kwargs => kwargs["minzoom"] \in 0..30
    /\ "maxzoom" \in DOMAIN kwargs => kwargs["maxzoom"] \in 0..30
    /\ "bounds" \in DOMAIN kwargs => Len(kwargs["bounds"]) > 0
    /\ "center" \in DOMAIN kwargs => Len(kwargs["center"]) = 3
    /\ "vector_layers" \in DOMAIN kwargs =>
          \A i \in 1..Len(kwargs["vector_layers"]) :
              "id" \in DOMAIN kwargs["vector_layers"][i]

\* TileJSON(**kwargs): the fields that are not None after validation
TileJSON(kwargs) ==
    LET given == [k \in DOMAIN kwargs |->
                    IF k = "vector_layers"
                    THEN [i \in 1..Len(kwargs[k]) |-> LayerJSON(kwargs[k][i])]
                    ELSE kwargs[k]]
    IN compute_center(given @@ TileJSONDefaults)

\* the fields of StyleJSON that are Optional and have no default
StyleJSONOptional == {"name", "metadata"}

\* StyleJSON(**kwargs): the fields that are not None after validation
StyleJSON(kwargs) == kwargs @@ [version |-> 8]

\* the JSON "null" of a serialized document
Null == "null"

\* the serialized response of a route with response_model_exclude_none
Serialize(obj, optional, exclude_none) ==
    IF exclude_none THEN obj
    ELSE obj @@ [k \in optional \ DOMAIN obj |-> Null]

(***************************************************************************)
(* The state: the application as constructed, the archive the locators     *)
(* resolve to, and the request being served.                               *)
(***************************************************************************)
VARIABLES
    app,              \* "factory" (factory.py) or "flat" (main.py)
    router_prefix,    \* TilerFactory.router_prefix
    mount,            \* the path the application includes the router under
    path_dependency,  \* TilerFactory.path_dependency
    archive,          \* what Reader(dataset) reports
    request,          \* the request being served
    pc,               \* "idle", "received", "opened" or "done"
    reader,           \* the Reader of the request: "none", "open" or "closed"
    response,         \* the response to the request
    origin,           \* the /tilejson.json request a tile URL was taken from
    document          \* the last TileJSON constructed directly

vars == <<app, router_prefix, mount, path_dependency, archive, request, pc,
          reader, response, origin, document>>

(***************************************************************************)
(* Routing and URL composition.                                            *)
(***************************************************************************)
\* str(request.base_url) of the model's server, and its scheme and host
Origin == <<"h", "t", "t", "p", ":", "/", "/", "h">>

BaseUrl == Origin \o <<"/">>

\* the routes of TilerFactory.router, by endpoint name
FactoryRoutes ==
    [metadata |-> <<"/", "m", "e", "t", "a", "d", "a", "t", "a">>,
     tiles_endpoint |-> <<"/", "t", "i", "l", "e", "s", "/", "{", "z", "}", "/", "{", "x", "}", "/", "{", "y", "}">>,
     tilejson_endpoint |-> <<"/", "t", "i", "l", "e", "j", "s", "o", "n", ".", "j", "s", "o", "n">>,
     stylejson_endpoint |-> <<"/", "s", "t", "y", "l", "e", ".", "j", "s", "o", "n">>,
     map_endpoint |-> <<"/", "m", "a", "p">>]

\* the routes of the flat application, by endpoint name
FlatRoutes ==
    [main_metadata |-> <<"/", "m", "e", "t", "a", "d", "a", "t", "a">>,
     tiles |-> <<"/", "t", "i", "l", "e", "s", "/", "{", "z", "}", "/", "{", "x", "}", "/", "{", "y", "}">>,
     tilejson |-> <<"/", "t", "i", "l", "e", "j", "s", "o", "n", ".", "j", "s", "o", "n">>,
     stylejson |-> <<"/", "s", "t", "y", "l", "e", ".", "j", "s", "o", "n">>,
     viewer |-> <<"/", "i", "n", "d", "e", "x", ".", "h", "t", "m", "l">>]

Routes == IF app = "factory" THEN FactoryRoutes ELSE FlatRoutes

\* the path a router with this router_prefix is meant to be included under:
\* "/" + router_prefix.lstrip("/")
MountPath ==
    IF router_prefix = <<>> THEN <<>> ELSE <<"/">> \o LStrip(router_prefix, "/")

\* the name of a path parameter is one character, so "{" + key + "}" is
Placeholder(key) == <<"{", key, "}">>

RECURSIVE replace_params(_, _)
\* starlette.routing.replace_params: every parameter whose placeholder occurs
\* in the path is substituted, a placeholder without a parameter stays
replace_params(path, path_params) ==
    IF DOMAIN path_params = {} THEN path
    ELSE LET key == CHOOSE k \in DOMAIN path_params : TRUE
             rest == [k \in DOMAIN path_params \ {key} |-> path_params[k]]
         IN replace_params(Replace(path, Placeholder(key), path_params[key]), rest)

\* the tile route arguments of the TileJSON and StyleJSON endpoints
route_params ==
    ("z" :> <<"{", "z", "}">>) @@ ("x" :> <<"{", "x", "}">>) @@
    ("y" :> <<"{", "y", "}">>)

\* URL(url).path: the text after scheme and host, up to the query or fragment
UrlPath(url) ==
    LET rest == Drop(url, Len(Origin))
        q == Find(rest, <<"?">>)
        f == Find(rest, <<"#">>)
        stop == IF q = 0 THEN f ELSE IF f = 0 THEN q ELSE IF q < f THEN q ELSE f
    IN IF stop = 0 THEN rest ELSE SubSeq(rest, 1, stop - 1)

\* URL(url).query: the text between the first "?" and the fragment
UrlQuery(url) ==
    LET f == Find(url, <<"#">>)
        nofrag == IF f = 0 THEN url ELSE SubSeq(url, 1, f - 1)
        q == Find(nofrag, <<"?">>)
    IN IF q = 0 THEN <<>> ELSE Drop(nofrag, q)

\* URLPath.make_absolute_url(base_url)
make_absolute_url(url_path, base_url) ==
    Origin \o RStrip(UrlPath(base_url), "/") \o url_path

\* url_for resolving the prefix from the arguments of the target route
\* instead of the request's path parameters (the mutant of url_for)
url_for_target_params(req, name, path_params) ==
    LET url_path == replace_params(FactoryRoutes[name], path_params)
        prefix == LStrip(router_prefix, "/")
        resolved == IF Contains(prefix, <<"{">>)
                    THEN replace_params(prefix, path_params)
                    ELSE prefix
        base_url == IF router_prefix # <<>> THEN BaseUrl \o resolved ELSE BaseUrl
    IN make_absolute_url(url_path, base_url)

\* TilerFactory.url_for
url_for(req, name, path_params) ==
    LET url_path == replace_params(FactoryRoutes[name], path_params)
        prefix == LStrip(router_prefix, "/")
        resolved == IF Contains(prefix, <<"{">>)
                    THEN replace_params(prefix, req.path_params)
                    ELSE prefix
        base_url == IF router_prefix # <<>> THEN BaseUrl \o resolved ELSE BaseUrl
    IN make_absolute_url(url_path, base_url)

\* Request.url_for of the flat application
request_url_for(name, path_params) ==
    make_absolute_url(replace_params(FlatRoutes[name], path_params), BaseUrl)

\* url += "?" + urlencode(request.query_params._list), when the list is not empty
with_query(url, query) ==
    IF query # <<>> THEN url \o <<"?">> \o urlencode(query) ELSE url

\* the value of a key of request.query_params: the last one of a repeated key
RECURSIVE QueryGet(_, _)
QueryGet(query, key) ==
    IF query[Len(query)][1] = key THEN query[Len(query)][2]
    ELSE QueryGet(SubSeq(query, 1, Len(query) - 1), key)

QueryHas(query, key) == \E i \in 1..Len(query) : query[i][1] = key

UrlKey == <<"u", "r", "l">>

\* the locator a custom path_dependency returns whatever the query string is
FixedDataset == <<"k">>

\* Depends(self.path_dependency): PathParams reads the query parameter url
Dataset(req) ==
    IF app = "factory" /\ path_dependency = "fixed" THEN FixedDataset
    ELSE QueryGet(req.query, UrlKey)

\* whether a route template matches a path, segment by segment
Matches(template, path) ==
    LET t == Split(template, "/")
        p == Split(path, "/")
    IN /\ Len(t) = Len(p)
       /\ \A i \in 1..Len(t) :
             IF t[i] # <<>> /\ Head(t[i]) = "{" THEN p[i] # <<>> ELSE t[i] = p[i]

\* the path parameters a matching route binds
Bindings(template, path) ==
    LET t == Split(template, "/")
        p == Split(path, "/")
        bound == {i \in 1..Len(t) : t[i] # <<>> /\ Head(t[i]) = "{"}
    IN [k \in {t[i][2] : i \in bound} |->
           p[CHOOSE i \in bound : t[i][2] = k]]

\* the request the application sees for a URL a client asks for
Route(url) ==
    LET path == UrlPath(url)
        hits == {n \in DOMAIN Routes : Matches(mount \o Routes[n], path)}
    IN IF hits = {}
       THEN [endpoint |-> "NoMatch", path_params |-> <<>>,
             query |-> parse_qsl(UrlQuery(url))]
       ELSE LET n == CHOOSE h \in hits : TRUE IN
            [endpoint |-> n,
             path_params |-> Bindings(mount \o Routes[n], path),
             query |-> parse_qsl(UrlQuery(url))]

TileEndpoints == {"tiles_endpoint", "tiles"}

\* the validation of the declared parameters: z, x, y are integers, z in 0..30,
\* and the locator is required
Valid(req) ==
    /\ req.endpoint # "NoMatch"
    /\ (app = "factory" /\ path_dependency = "fixed") \/ QueryHas(req.query, UrlKey)
    /\ req.endpoint \in TileEndpoints =>
          /\ \A k \in {"z", "x", "y"} : IsInt(req.path_params[k])
          /\ StrToInt(req.path_params["z"]) \in 0..30

(***************************************************************************)
(* The archive reader (aiopmtiles.Reader), as the endpoints use it.        *)
(***************************************************************************)
\* "vector_layers" in meta (the mutant of has_vector_layers)
has_vector_layers_key(meta) == "vector_layers" \in DOMAIN meta

\* meta.get("vector_layers") is truthy
has_vector_layers(meta) == Truthy(meta, "vector_layers")

\* src.get_tile(z, x, y): the tile of the archive the locator names, None
\* (the empty value) outside the archive's zoom range and tile pyramid
get_tile(dataset, z, x, y) ==
    IF /\ z \in archive.minzoom..archive.maxzoom
       /\ x < 2 ^ z
       /\ y < 2 ^ z
    THEN <<"tile", dataset, z, x, y>>
    ELSE <<>>

(***************************************************************************)
(* The style synthesis of /style.json.                                     *)
(***************************************************************************)
BasemapLayer ==
    ("id" :> "basemap") @@ ("type" :> "raster") @@ ("source" :> "basemap") @@
    ("minzoom" :> 0) @@ ("maxzoom" :> 20)

RasterLayer ==
    ("id" :> "raster") @@ ("type" :> "raster") @@ ("source" :> "pmtiles")

\* the numbers of a paint are written as their literal text
MaskPaint == ("fill-color" :> "black") @@ ("fill-opacity" :> "0.8")

FillPaint ==
    ("fill-color" :> "rgba(200, 100, 240, 0.4)") @@ ("fill-outline-color" :> "#000")

\* the fill paint with the mask test dropped (the mutant of fill_paint)
fill_paint_plain(layer_id) == FillPaint

\* if layer_id == "mask": ... else: ...
fill_paint(layer_id) == IF layer_id = "mask" THEN MaskPaint ELSE FillPaint

\* the fill layer named by the descriptor's id alone (the mutant of fill_layer)
fill_layer_unsuffixed(layer_id) ==
    ("id" :> layer_id) @@ ("type" :> "fill") @@
    ("source" :> "pmtiles") @@ ("source-layer" :> layer_id) @@
    ("filter" :> <<"==", <<"geometry-type">>, "Polygon">>) @@
    ("paint" :> fill_paint(layer_id))

fill_layer(layer_id) ==
    ("id" :> layer_id \o "_fill") @@ ("type" :> "fill") @@
    ("source" :> "pmtiles") @@ ("source-layer" :> layer_id) @@
    ("filter" :> <<"==", <<"geometry-type">>, "Polygon">>) @@
    ("paint" :> fill_paint(layer_id))

stroke_layer(layer_id) ==
    ("id" :> layer_id \o "_stroke") @@ ("source" :> "pmtiles") @@
    ("source-layer" :> layer_id) @@ ("type" :> "line") @@
    ("filter" :> <<"==", <<"geometry-type">>, "LineString">>) @@
    ("paint" :> (("line-color" :> "#000") @@ ("line-width" :> "1") @@
                 ("line-opacity" :> "0.75")))

point_layer(layer_id) ==
    ("id" :> layer_id \o "_point") @@ ("source" :> "pmtiles") @@
    ("source-layer" :> layer_id) @@ ("type" :> "circle") @@
    ("filter" :> <<"==", <<"geometry-type">>, "Point">>) @@
    ("paint" :> (("circle-color" :> "#000") @@ ("circle-radius" :> "2.5") @@
                 ("circle-opacity" :> "0.75")))

\* the three appends of one pass of the loop, fill last (the mutant of layer_group)
layer_group_reordered(layer_id) ==
    <<stroke_layer(layer_id), point_layer(layer_id), fill_layer(layer_id)>>

\* the three appends of one pass of the loop over vector_layers
layer_group(layer_id) ==
    <<fill_layer(layer_id), stroke_layer(layer_id), point_layer(layer_id)>>

RECURSIVE append_layers(_, _)
\* for layer in vector_layers: layers.append(...) three times
append_layers(layers, vector_layers) ==
    IF vector_layers = <<>> THEN layers
    ELSE append_layers(layers \o layer_group(vector_layers[1]["id"]),
                       Tail(vector_layers))

\* the layers with the metadata's vector layers styled whatever is_vector is
\* (the mutant of style_layers)
style_layers_any(src) ==
    IF has_vector_layers(src.meta)
    THEN append_layers(<<BasemapLayer>>, src.meta["vector_layers"])
    ELSE <<BasemapLayer, RasterLayer>>

\* the layers with a raster layer when there is no vector layer to style
\* (the mutant of style_layers)
style_layers_fallback(src) ==
    IF src.is_vector /\ has_vector_layers(src.meta)
    THEN append_layers(<<BasemapLayer>>, src.meta["vector_layers"])
    ELSE <<BasemapLayer, RasterLayer>>

\* the layers of either branch of the style
style_layers(src) ==
    IF src.is_vector
    THEN IF has_vector_layers(src.meta)
         THEN append_layers(<<BasemapLayer>>, src.meta["vector_layers"])
         ELSE <<BasemapLayer>>
    ELSE <<BasemapLayer, RasterLayer>>

pmtiles_source(src, tiles_url) ==
    [type |-> IF src.is_vector THEN "vector" ELSE "raster",
     scheme |-> "xyz",
     tiles |-> <<tiles_url>>,
     minzoom |-> src.minzoom,
     maxzoom |-> src.maxzoom,
     bounds |-> src.bounds]

\* the basemap source of the factory application
FactoryBasemap ==
    [type |-> "raster",
     tiles |-> <<"https://tile.openstreetmap.org/{z}/{x}/{y}.png">>,
     tileSize |-> 256,
     attribution |-> "&copy; <a href=\"https://www.openstreetmap.org/copyright\">OpenStreetMap</a> contributors"]

\* the basemap source of the flat application
FlatBasemap ==
    [type |-> "raster",
     tiles |-> <<"https://stamen-tiles-a.a.ssl.fastly.net/toner-lite/{z}/{x}/{y}.png",
                 "https://stamen-tiles-b.a.ssl.fastly.net/toner-lite/{z}/{x}/{y}.png",
                 "https://stamen-tiles-c.a.ssl.fastly.net/toner-lite/{z}/{x}/{y}.png",
                 "https://stamen-tiles-d.a.ssl.fastly.net/toner-lite/{z}/{x}/{y}.png">>,
     tileSize |-> 256,
     attribution |-> "Map tiles by <a href=\"https://stamen.com\">Stamen Design</a>, under <a href=\"http://creativecommons.org/licenses/by/3.0\">CC BY 3.0</a>. Data by <a href=\"http://openstreetmap.org\">OpenStreetMap</a>, under <a href=\"http://www.openstreetmap.org/copyright\">ODbL</a>."]

\* the sources with the data source left out (the mutant of style_sources)
style_sources_basemap_only(src, tiles_url, basemap) == [basemap |-> basemap]

style_sources(src, tiles_url, basemap) ==
    [pmtiles |-> pmtiles_source(src, tiles_url), basemap |-> basemap]

\* the dict the style endpoints return
style_json(src, tiles_url, basemap) ==
    [sources |-> style_sources(src, tiles_url, basemap),
     layers |-> style_layers(src),
     center |-> <<src.center[1], src.center[2]>>,
     zoom |-> src.center[3]]

(***************************************************************************)
(* The TileJSON synthesis of /tilejson.json.                               *)
(***************************************************************************)
\* the dict the TileJSON endpoints return
tilejson_dict(src, tiles_url) ==
    LET tilejson == [name |-> "pmtiles", version |-> "1.0.0", scheme |-> "xyz",
                     tiles |-> <<tiles_url>>,
                     minzoom |-> src.minzoom, maxzoom |-> src.maxzoom,
                     bounds |-> src.bounds, center |-> src.center]
    IN IF has_vector_layers(src.meta)
       THEN tilejson @@ [vector_layers |-> src.meta["vector_layers"]]
       ELSE tilejson

(***************************************************************************)
(* The inputs: archives, query strings and tile coordinates.               *)
(***************************************************************************)
SeqsUpTo(S, n) == UNION {[1..k -> S] : k \in 0..n}

\* tile coordinates (z, x, y) a client asks for: inside the archive, beyond its
\* zoom range, outside the tile pyramid, and of more than one digit
TileCoords == {<<0, 0, 0>>, <<1, 1, 0>>, <<1, 2, 0>>, <<12, 40, 7>>}

\* query keys: the locator's, and one with reserved characters
QueryKeys == {UrlKey, <<"v", "&">>}

\* query values: plain, reserved characters, a literal percent sequence, a
\* template token, and blank
QueryValues ==
    {<<"k">>, <<"k", "&", "v", "=", "+", " ", "#", "?", "/">>, <<"%", "2", "6">>, <<"{", "z", "}">>, <<>>}

QueryLists == SeqsUpTo(QueryKeys \X QueryValues, MaxParams)

\* the query strings of the requests that exercise the documents
PlainQueries == {<<<<UrlKey, <<"k">>>>>>, <<>>}

\* vector-layer descriptors of an archive's metadata
Descriptors ==
    {("id" :> "roads"),
     ("id" :> "mask") @@ ("minzoom" :> 0) @@ ("maxzoom" :> 14),
     ("id" :> "roads_fill") @@ ("fields" :> [name |-> "String"]) @@
         ("extra" :> "ignored"),
     ("id" :> "basemap")}

\* metadata documents: without vector_layers, and with every list of descriptors
Metadatas ==
    {[name |-> "archive"]} \cup
    {[name |-> "archive", vector_layers |-> l] : l \in SeqsUpTo(Descriptors, MaxLayers)}

Archives ==
    [is_vector : BOOLEAN,
     meta : Metadatas,
     minzoom : {0},
     maxzoom : {0, 1},
     bounds : {<<Deg(-10), Deg(-5), Deg(10), Deg(5)>>},
     center : {<<0, 0, 0>>, <<Deg(2), Deg(1), 1>>},
     tile_compression : {"NONE", "GZIP"}]

\* the archives of the requests that exercise the URLs
PlainArchives ==
    {a \in Archives :
        /\ a.is_vector
        /\ a.meta = [name |-> "archive", vector_layers |-> <<("id" :> "roads")>>]
        /\ a.center = <<0, 0, 0>>
        /\ a.tile_compression = "GZIP"}

\* a mount prefix without and with a path parameter
RouterPrefixes == {<<>>, <<"/", "c", "/", "{", "i", "}">>}

\* a router whose router_prefix names the parameter i, included under a path
\* that names its parameter j
OtherMount == <<"/", "c", "/", "{", "j", "}">>

\* the paths a router may be included under
Mounts ==
    {MountPath} \cup (IF Contains(router_prefix, <<"{">>) THEN {OtherMount} ELSE {})

\* the path parameters the mount of the router binds in the model's requests
MountParams ==
    LET segments == Split(mount, "/")
        bound == {i \in 1..Len(segments) :
                     segments[i] # <<>> /\ Head(segments[i]) = "{"}
    IN [k \in {segments[i][2] : i \in bound} |-> <<"7">>]

NoRequest == [endpoint |-> "none", path_params |-> <<>>, query |-> <<>>]

NoResponse == [status |-> 0]

\* the answer to a request whose endpoint raised: Reader(dataset) could not
\* open the archive ("open"), or a read of the open archive failed ("read")
ServerError(raised) == [status |-> 500, raised |-> raised]

NoOrigin == [taken |-> FALSE, asked |-> <<>>]

NoDocument == [constructed |-> FALSE]

(***************************************************************************)
(* Construction, and the arrival of a request.                             *)
(***************************************************************************)
Constructed ==
    /\ app \in {"factory", "flat"}
    /\ router_prefix \in (IF app = "factory" THEN RouterPrefixes ELSE {<<>>})
    /\ path_dependency \in (IF app = "factory" THEN {"PathParams", "fixed"}
                            ELSE {"PathParams"})
    /\ request = NoRequest
    /\ pc = "idle"
    /\ reader = "none"
    /\ response = NoResponse
    /\ origin = NoOrigin
    /\ document = NoDocument

Init == Constructed /\ mount = MountPath /\ archive \in PlainArchives

InitStyle == Constructed /\ mount = MountPath /\ archive \in Archives

\* a client asks for an endpoint of the application
Receive(queries) ==
    /\ pc = "idle"
    /\ \E name \in DOMAIN Routes, query \in queries, c \in TileCoords :
          /\ name \notin TileEndpoints => c = <<0, 0, 0>>
          /\ request' =
                [endpoint |-> name,
                 path_params |->
                    IF name \in TileEndpoints
                    THEN ("z" :> IntToStr(c[1])) @@ ("x" :> IntToStr(c[2])) @@
                         ("y" :> IntToStr(c[3])) @@ MountParams
                    ELSE MountParams,
                 query |-> query]
    /\ pc' = "received"
    /\ response' = NoResponse
    /\ origin' = NoOrigin
    /\ UNCHANGED <<app, router_prefix, mount, path_dependency, archive, reader,
                   document>>

MapPath == <<"/", "m", "a", "p">>

\* a client asks for /map of the application, under the path the router is
\* included under, as the test client of tests/test_endoints.py does
AskMap(queries) ==
    /\ pc = "idle"
    /\ \E query \in queries :
          request' = Route(with_query(
                         Origin \o replace_params(mount, MountParams) \o MapPath,
                         query))
    /\ pc' = "received"
    /\ response' = NoResponse
    /\ origin' = [taken |-> FALSE, asked |-> MapPath]
    /\ UNCHANGED <<app, router_prefix, mount, path_dependency, archive, reader,
                   document>>

\* a client takes tiles[0] of a TileJSON response, substitutes a tile
\* coordinate for the tokens and asks for the URL
FollowTileUrl ==
    /\ pc = "done"
    /\ request.endpoint \in {"tilejson_endpoint", "tilejson"}
    /\ response.status = 200
    /\ \E c \in TileCoords :
          LET template == response.body["tiles"][1]
              url == Replace(Replace(Replace(template,
                        Placeholder("z"), IntToStr(c[1])),
                        Placeholder("x"), IntToStr(c[2])),
                        Placeholder("y"), IntToStr(c[3]))
          IN /\ request' = Route(url)
             /\ origin' = [taken |-> TRUE, asked |-> UrlPath(url),
                           query |-> request.query,
                           dataset |-> Dataset(request),
                           z |-> c[1], x |-> c[2], y |-> c[3]]
    /\ pc' = "received"
    /\ reader' = "none"
    /\ response' = NoResponse
    /\ UNCHANGED <<app, router_prefix, mount, path_dependency, archive, document>>

\* the framework answers a request no route matches, or whose parameters do
\* not validate, without calling an endpoint
RejectRequest ==
    /\ pc = "received"
    /\ ~ Valid(request)
    /\ response' = [status |-> IF request.endpoint = "NoMatch" THEN 404 ELSE 422]
    /\ pc' = "done"
    /\ UNCHANGED <<app, router_prefix, mount, path_dependency, archive, request,
                   reader, origin, document>>

\* the response is sent and the application waits for the next request
Complete ==
    /\ pc = "done"
    /\ pc' = "idle"
    /\ request' = NoRequest
    /\ reader' = "none"
    /\ response' = NoResponse
    /\ origin' = NoOrigin
    /\ UNCHANGED <<app, router_prefix, mount, path_dependency, archive, document>>

\* the endpoints whose body runs inside "async with Reader(...) as src"
ReaderEndpoints ==
    {"metadata", "tiles_endpoint", "tilejson_endpoint", "stylejson_endpoint",
     "main_metadata", "tiles", "tilejson", "stylejson"}

\* an exit of the with block that does not close the reader (the mutant of
\* async_with_exit)
async_with_exit_skipped(r) == r

\* the exit of "async with Reader(...) as src", by the end of the block or by
\* an exception raised in it: Reader.__aexit__ closes the reader
async_with_exit(r) == IF r = "open" THEN "closed" ELSE r

\* "async with Reader(dataset) as src" is entered: the archive is open
OpenReader ==
    /\ pc = "received"
    /\ request.endpoint \in ReaderEndpoints
    /\ Valid(request)
    /\ reader = "none"
    /\ reader' = "open"
    /\ pc' = "opened"
    /\ UNCHANGED <<app, router_prefix, mount, path_dependency, archive, request,
                   response, origin, document>>

\* Reader(dataset) cannot open the archive: the with block is not entered and
\* the exception leaves the endpoint
OpenFails ==
    /\ pc = "received"
    /\ request.endpoint \in ReaderEndpoints
    /\ Valid(request)
    /\ reader = "none"
    /\ response' = ServerError("open")
    /\ pc' = "done"
    /\ UNCHANGED <<app, router_prefix, mount, path_dependency, archive, request,
                   reader, origin, document>>

\* src.metadata() or src.get_tile() raises inside the with block: the block
\* is left by the exception (the raster branch of the style reads nothing more)
ReadFails ==
    /\ pc = "opened"
    /\ request.endpoint \in {"stylejson_endpoint", "stylejson"} => archive.is_vector
    /\ reader' = async_with_exit(reader)
    /\ response' = ServerError("read")
    /\ pc' = "done"
    /\ UNCHANGED <<app, router_prefix, mount, path_dependency, archive, request,
                   origin, document>>

Serving(name) ==
    /\ pc = IF name \in ReaderEndpoints THEN "opened" ELSE "received"
    /\ request.endpoint = name
    /\ Valid(request)

\* the endpoint leaves its with block, if it has one, and returns
Respond(media_type, headers, body) ==
    /\ response' = [status |-> 200, media_type |-> media_type,
                    headers |-> headers, body |-> body]
    /\ reader' = async_with_exit(reader)
    /\ pc' = "done"
    /\ UNCHANGED <<app, router_prefix, mount, path_dependency, archive, request,
                   origin, document>>

\* headers["Content-Encoding"] = src.tile_compression.name.lower()
TileHeaders ==
    IF archive.tile_compression # "NONE"
    THEN [Content_Encoding |-> IF archive.tile_compression = "GZIP" THEN "gzip"
                               ELSE archive.tile_compression]
    ELSE <<>>

PathInt(key) == StrToInt(request.path_params[key])

(***************************************************************************)
(* The endpoints of the factory application.                               *)
(***************************************************************************)
metadata ==
    /\ Serving("metadata")
    /\ Respond("application/json", <<>>, archive.meta)

tiles_endpoint ==
    /\ Serving("tiles_endpoint")
    /\ Respond("application/x-protobuf", TileHeaders,
               get_tile(Dataset(request), PathInt("z"), PathInt("x"), PathInt("y")))

\* the tile URL template of the TileJSON and StyleJSON endpoints
tiles_url(req) ==
    with_query(url_for(req, "tiles_endpoint", route_params), req.query)

tilejson_endpoint ==
    /\ Serving("tilejson_endpoint")
    /\ LET tilejson == tilejson_dict(archive, tiles_url(request)) IN
       /\ TileJSONValid(tilejson)
       /\ Respond("application/json", <<>>,
                  Serialize(TileJSON(tilejson), TileJSONOptional, TRUE))

stylejson_endpoint ==
    /\ Serving("stylejson_endpoint")
    /\ Respond("application/json", <<>>,
               Serialize(StyleJSON(style_json(archive, tiles_url(request),
                                              FactoryBasemap)),
                         StyleJSONOptional, TRUE))

map_endpoint ==
    /\ Serving("map_endpoint")
    /\ Respond("text/html", <<>>,
               [name |-> "index.html",
                style_endpoint |->
                    with_query(url_for(request, "stylejson_endpoint", <<>>),
                               request.query)])

(***************************************************************************)
(* The endpoints of the flat application.                                  *)
(***************************************************************************)
\* str(request.url_for(name, ...)) + f"?url={url}"
flat_url(name, path_params, url) ==
    request_url_for(name, path_params) \o <<"?">> \o UrlKey \o <<"=">> \o url

main_metadata ==
    /\ Serving("main_metadata")
    /\ Respond("application/json", <<>>, archive.meta)

tiles ==
    /\ Serving("tiles")
    /\ Respond("application/x-protobuf", TileHeaders,
               get_tile(Dataset(request), PathInt("z"), PathInt("x"), PathInt("y")))

tilejson ==
    /\ Serving("tilejson")
    /\ LET doc == tilejson_dict(archive,
                      flat_url("tiles", route_params, Dataset(request))) IN
       /\ TileJSONValid(doc)
       /\ Respond("application/json", <<>>,
                  Serialize(TileJSON(doc), TileJSONOptional, TRUE))

stylejson ==
    /\ Serving("stylejson")
    /\ Respond("application/json", <<>>,
               Serialize(StyleJSON(style_json(archive,
                             flat_url("tiles", route_params, Dataset(request)),
                             FlatBasemap)),
                         StyleJSONOptional, TRUE))

viewer ==
    /\ Serving("viewer")
    /\ Respond("text/html", <<>>,
               [name |-> "index.html",
                style_endpoint |-> flat_url("stylejson", <<>>, Dataset(request))])

Endpoints ==
    \/ metadata
    \/ tiles_endpoint
    \/ tilejson_endpoint
    \/ stylejson_endpoint
    \/ map_endpoint
    \/ main_metadata
    \/ tiles
    \/ tilejson
    \/ stylejson
    \/ viewer

Next ==
    \/ Receive(QueryLists)
    \/ AskMap(QueryLists)
    \/ FollowTileUrl
    \/ RejectRequest
    \/ OpenReader
    \/ OpenFails
    \/ ReadFails
    \/ Endpoints
    \/ Complete

Spec == Init /\ [][Next]_vars

NextStyle ==
    \/ Receive(PlainQueries)
    \/ FollowTileUrl
    \/ RejectRequest
    \/ OpenReader
    \/ OpenFails
    \/ ReadFails
    \/ Endpoints
    \/ Complete

SpecStyle == InitStyle /\ [][NextStyle]_vars

\* the application with its router included under any of the paths, consistent
\* with router_prefix or not
InitUrl == Constructed /\ mount \in Mounts /\ archive \in PlainArchives

NextUrl ==
    \/ Receive(PlainQueries)
    \/ AskMap(PlainQueries)
    \/ FollowTileUrl
    \/ RejectRequest
    \/ OpenReader
    \/ OpenFails
    \/ ReadFails
    \/ Endpoints
    \/ Complete

SpecUrl == InitUrl /\ [][NextUrl]_vars

(***************************************************************************)
(* The construction of a TileJSON document on its own.                     *)
(***************************************************************************)
\* keyword arguments of TileJSON(...): tiles, and any of the other fields
ModelKwargs ==
    {[k \in K \cup {"tiles"} |-> v[k]] :
        K \in SUBSET {"bounds", "center", "minzoom", "maxzoom"},
        v \in [tiles : {<<<<"t">>>>},
               bounds : {<<Deg(-10), Deg(-5), Deg(10), Deg(5)>>,
                         <<0, 0, Deg(20), Deg(10)>>},
               center : {<<0, 0, 0>>, <<Deg(3), Deg(4), 5>>},
               minzoom : {0, 2, 31},
               maxzoom : {2, 30}]}

InitModel ==
    /\ Constructed
    /\ app = "factory"
    /\ router_prefix = <<>>
    /\ mount = MountPath
    /\ path_dependency = "PathParams"
    /\ archive \in PlainArchives

\* TileJSON(**kwargs): the document, or the ValidationError
Construct ==
    /\ \E kwargs \in ModelKwargs :
          document' =
             IF TileJSONValid(kwargs)
             THEN [constructed |-> TRUE, kwargs |-> kwargs, error |-> FALSE,
                   value |-> TileJSON(kwargs)]
             ELSE [constructed |-> TRUE, kwargs |-> kwargs, error |-> TRUE]
    /\ UNCHANGED <<app, router_prefix, mount, path_dependency, archive, request, pc,
                   reader, response, origin>>

NextModel == Construct

SpecModel == InitModel /\ [][NextModel]_vars

(***************************************************************************)
(* Properties.                                                             *)
(***************************************************************************)
\* the endpoint raised because the archive could not be opened or read
IOFailed == response.status = 500 /\ response.raised \in {"open", "read"}

Answered(names) ==
    /\ pc = "done"
    /\ request.endpoint \in names
    /\ response.status = 200

\* the tile URL template a TileJSON or StyleJSON response carries
TileTemplate ==
    IF request.endpoint \in {"tilejson_endpoint", "tilejson"}
    THEN response.body["tiles"][1]
    ELSE response.body["sources"]["pmtiles"]["tiles"][1]

\* C1: the query string of the tile URL template that /tilejson.json and
\* /style.json of the factory application emit parses back to exactly the
\* request's list of query parameters (same pairs, order and multiplicity), and
\* the template has no query string when the request has no query parameters.
C1_QueryPreserved ==
    Answered({"tilejson_endpoint", "stylejson_endpoint"}) =>
        IF request.query = <<>>
        THEN ~ Contains(TileTemplate, <<"?">>)
        ELSE /\ Contains(TileTemplate, <<"?">>)
             /\ parse_qsl(UrlQuery(TileTemplate)) = request.query

\* a /style.json answer to a request that repeats a key and carries reserved
\* characters in two parameters
C1_Witness ==
    /\ Answered({"stylejson_endpoint"})
    /\ Len(request.query) = 2
    /\ request.query[1][1] = request.query[2][1]
    /\ request.query[1][2] = <<"k", "&", "v", "=", "+", " ", "#", "?", "/">>
    /\ request.query[2][2] = <<"%", "2", "6">>
    /\ parse_qsl(UrlQuery(TileTemplate)) = request.query

\* C2: the request a client makes from tiles[0] of a /tilejson.json response,
\* with a tile coordinate substituted for {z}, {x}, {y}, reaches the tile
\* endpoint with the query parameters of the /tilejson.json request and is
\* answered with the tile a direct request for that locator and coordinate gets.
C2_RoundTrip ==
    (origin.taken /\ pc = "done" /\ ~ IOFailed) =>
        /\ request.endpoint \in TileEndpoints
        /\ request.query = origin.query
        /\ response.status = 200
        /\ response.body = get_tile(origin.dataset, origin.z, origin.x, origin.y)

\* the round trip of C2 restricted to the factory application
C2_RoundTripFactory == app = "factory" => C2_RoundTrip

\* the layers of a /style.json answer, and the descriptors it styles
StyleLayers == response.body["layers"]

VectorLayers ==
    IF has_vector_layers_key(archive.meta) THEN archive.meta["vector_layers"]
    ELSE <<>>

StyleEndpoints == {"stylejson_endpoint", "stylejson"}

\* C3: in the vector branch the layers are basemap followed, for every
\* descriptor in metadata order, by its fill, stroke and point layers, each
\* on the source pmtiles with the descriptor's id as source-layer.
C3_LayersGrouped ==
    (Answered(StyleEndpoints) /\ archive.is_vector) =>
        /\ Len(StyleLayers) = 1 + 3 * Len(VectorLayers)
        /\ StyleLayers[1]["id"] = "basemap"
        /\ \A i \in 1..Len(VectorLayers) :
              LET id == VectorLayers[i]["id"] IN
              /\ StyleLayers[3 * i - 1]["id"] = id \o "_fill"
              /\ StyleLayers[3 * i]["id"] = id \o "_stroke"
              /\ StyleLayers[3 * i + 1]["id"] = id \o "_point"
              /\ \A j \in (3 * i - 1)..(3 * i + 1) :
                    /\ StyleLayers[j]["source"] = "pmtiles"
                    /\ StyleLayers[j]["source-layer"] = id

\* a style of two different descriptors has seven layers
C3_Witness ==
    /\ Answered(StyleEndpoints)
    /\ archive.is_vector
    /\ Len(VectorLayers) = 2
    /\ VectorLayers[1]["id"] = "roads"
    /\ VectorLayers[2]["id"] = "mask"
    /\ Len(StyleLayers) = 7
    /\ StyleLayers[5]["id"] = "mask_fill"

\* C4: the fill layer of a descriptor is painted solid black with opacity 0.8
\* exactly when the id is "mask", and translucent purple with a black outline
\* otherwise; the stroke and point layers have the same filter and paint for
\* every id.
C4_MaskPaint ==
    (Answered(StyleEndpoints) /\ archive.is_vector) =>
        \A i \in 1..Len(VectorLayers) :
            LET id == VectorLayers[i]["id"]
                fill == StyleLayers[3 * i - 1]
                stroke == StyleLayers[3 * i]
                point == StyleLayers[3 * i + 1]
            IN /\ id = "mask" <=>
                     fill["paint"] = ("fill-color" :> "black") @@
                                     ("fill-opacity" :> "0.8")
               /\ id # "mask" <=>
                     fill["paint"] = ("fill-color" :> "rgba(200, 100, 240, 0.4)") @@
                                     ("fill-outline-color" :> "#000")
               /\ \A j \in 1..Len(VectorLayers) :
                     /\ StyleLayers[3 * j]["filter"] = stroke["filter"]
                     /\ StyleLayers[3 * j]["paint"] = stroke["paint"]
                     /\ StyleLayers[3 * j + 1]["filter"] = point["filter"]
                     /\ StyleLayers[3 * j + 1]["paint"] = point["paint"]

\* a style of a mask descriptor and another one
C4_Witness ==
    /\ Answered(StyleEndpoints)
    /\ archive.is_vector
    /\ Len(VectorLayers) = 2
    /\ VectorLayers[1]["id"] = "mask"
    /\ VectorLayers[2]["id"] = "roads_fill"
    /\ StyleLayers[2]["paint"]["fill-color"] = "black"
    /\ StyleLayers[5]["paint"]["fill-color"] = "rgba(200, 100, 240, 0.4)"

\* C5: for a vector archive whose metadata has no vector layers (the key
\* absent or its list empty) /style.json succeeds with the basemap layer alone.
C5_BasemapOnly ==
    (/\ pc = "done"
     /\ request.endpoint \in StyleEndpoints
     /\ Valid(request)
     /\ ~ IOFailed
     /\ archive.is_vector
     /\ Len(VectorLayers) = 0) =>
        /\ response.status = 200
        /\ Len(StyleLayers) = 1
        /\ StyleLayers[1]["id"] = "basemap"

\* a style of a vector archive whose vector_layers list is empty
C5_Witness ==
    /\ Answered(StyleEndpoints)
    /\ archive.is_vector
    /\ has_vector_layers_key(archive.meta)
    /\ archive.meta["vector_layers"] = <<>>
    /\ Len(StyleLayers) = 1

\* C6: for a raster archive, whatever its metadata, the layers are basemap
\* then raster, the raster layer on the source pmtiles without minzoom,
\* maxzoom or filter.
C6_RasterLayers ==
    (Answered(StyleEndpoints) /\ ~ archive.is_vector) =>
        /\ Len(StyleLayers) = 2
        /\ StyleLayers[1]["id"] = "basemap"
        /\ StyleLayers[2]["id"] = "raster"
        /\ StyleLayers[2]["type"] = "raster"
        /\ StyleLayers[2]["source"] = "pmtiles"
        /\ DOMAIN StyleLayers[2] \cap {"minzoom", "maxzoom", "filter"} = {}

\* a style of a raster archive whose metadata lists vector layers
C6_Witness ==
    /\ Answered(StyleEndpoints)
    /\ ~ archive.is_vector
    /\ Len(VectorLayers) = 2
    /\ Len(StyleLayers) = 2

\* C7: every StyleJSON document has exactly the sources pmtiles and basemap,
\* the basemap raster layer first, and every other layer on the source pmtiles.
C7_SourcesAndBasemap ==
    Answered(StyleEndpoints) =>
        /\ DOMAIN response.body["sources"] = {"pmtiles", "basemap"}
        /\ Len(StyleLayers) >= 1
        /\ StyleLayers[1]["id"] = "basemap"
        /\ StyleLayers[1]["type"] = "raster"
        /\ StyleLayers[1]["source"] = "basemap"
        /\ \A i \in 2..Len(StyleLayers) : StyleLayers[i]["source"] = "pmtiles"

\* a style of a vector archive with data layers
C7_Witness ==
    /\ Answered(StyleEndpoints)
    /\ archive.is_vector
    /\ Len(StyleLayers) = 4
    /\ DOMAIN response.body["sources"] = {"pmtiles", "basemap"}

\* the midpoint of a document's bounds at its minzoom
Midpoint(doc) ==
    <<(doc["bounds"][1] + doc["bounds"][3]) \div 2,
      (doc["bounds"][2] + doc["bounds"][4]) \div 2,
      doc["minzoom"]>>

Built == document.constructed /\ ~ document.error

\* C8: a TileJSON document's center is the midpoint of its bounds at its
\* minzoom exactly when no center is supplied, and is the supplied center
\* otherwise, an all-zero center included; bounds [-10, -5, 10, 5] with
\* minzoom 2 and no center give (0, 0, 2).
C8_CenterDefault ==
    Built =>
        /\ "center" \notin DOMAIN document.kwargs =>
              document.value["center"] = Midpoint(document.value)
        /\ "center" \in DOMAIN document.kwargs =>
              document.value["center"] = document.kwargs["center"]
        /\ (/\ DOMAIN document.kwargs = {"tiles", "bounds", "minzoom"}
            /\ document.kwargs["bounds"] = <<Deg(-10), Deg(-5), Deg(10), Deg(5)>>
            /\ document.kwargs["minzoom"] = 2) =>
              document.value["center"] = <<0, 0, 2>>

\* an all-zero center supplied with bounds whose midpoint is not zero
C8_Witness ==
    /\ Built
    /\ "center" \in DOMAIN document.kwargs
    /\ "bounds" \in DOMAIN document.kwargs
    /\ document.kwargs["center"] = <<0, 0, 0>>
    /\ document.kwargs["bounds"] = <<0, 0, Deg(20), Deg(10)>>
    /\ document.value["center"] = <<0, 0, 0>>

\* C9: a TileJSON document constructed without bounds has the full-earth
\* bounds with west = -180, and the center derived from them has longitude 0.
C9_DefaultBounds ==
    (Built /\ "bounds" \notin DOMAIN document.kwargs) =>
        /\ document.value["bounds"] = FullEarthBounds
        /\ "center" \notin DOMAIN document.kwargs =>
              document.value["center"][1] = 0

TileJSONEndpoints == {"tilejson_endpoint", "tilejson"}

\* C10: the /tilejson.json response has the field vector_layers exactly when
\* the metadata has a non-empty vector_layers list, and then it holds the
\* descriptors in metadata order; otherwise the field is left out, not
\* emitted as null or as an empty list.
C10_VectorLayersField ==
    Answered(TileJSONEndpoints) =>
        /\ "vector_layers" \in DOMAIN response.body <=> Len(VectorLayers) > 0
        /\ "vector_layers" \in DOMAIN response.body =>
              /\ Len(response.body["vector_layers"]) = Len(VectorLayers)
              /\ \A i \in 1..Len(VectorLayers) :
                    \A k \in DOMAIN VectorLayers[i] \cap
                             ({"id", "fields"} \cup LayerJSONOptional) :
                        response.body["vector_layers"][i][k] = VectorLayers[i][k]

\* a TileJSON answer for an archive whose vector_layers list is empty
C10_Witness ==
    /\ Answered(TileJSONEndpoints)
    /\ has_vector_layers_key(archive.meta)
    /\ archive.meta["vector_layers"] = <<>>
    /\ "vector_layers" \notin DOMAIN response.body

\* C11: the reader a /metadata, /tiles, /tilejson.json or /style.json request
\* opens is closed by the time the request has its response or its error,
\* whether the endpoint returns or a read of the open archive raises; the
\* endpoint reads the archive only while the reader is open, and a closed
\* reader belongs to a request that is over.
C11_ReaderClosed ==
    /\ pc = "done" => reader # "open"
    /\ pc = "opened" => reader = "open"
    /\ reader = "closed" => pc = "done"
    /\ (pc = "done" /\ request.endpoint \in ReaderEndpoints /\ Valid(request)) =>
          reader = (IF response.status = 500 /\ response.raised = "open"
                    THEN "none" ELSE "closed")

\* a /tilejson.json request whose metadata read raised after the open
C11_Witness ==
    /\ pc = "done"
    /\ request.endpoint = "tilejson_endpoint"
    /\ response.status = 500
    /\ response.raised = "read"
    /\ reader = "closed"

\* C12: a tile request for a coordinate the archive does not cover (get_tile
\* gives no tile bytes) is answered with status 404, not with a success
\* response whose body is empty.
C12_NotFound404 ==
    (/\ pc = "done"
     /\ request.endpoint \in TileEndpoints
     /\ Valid(request)
     /\ ~ IOFailed
     /\ get_tile(Dataset(request), PathInt("z"), PathInt("x"), PathInt("y")) = <<>>) =>
        response.status = 404

\* the endpoints that compose a URL with url_for, and the URL they answer with
UrlEndpoints == {"tilejson_endpoint", "stylejson_endpoint", "map_endpoint"}

ComposedUrl ==
    IF request.endpoint = "map_endpoint" THEN response.body["style_endpoint"]
    ELSE TileTemplate

\* the path parameters router_prefix names
PrefixNames ==
    LET segments == Split(router_prefix, "/")
    IN {segments[i][2] : i \in {j \in 1..Len(segments) :
                                    segments[j] # <<>> /\ Head(segments[j]) = "{"}}

\* C13: a request that does not bind a path parameter the mount prefix names
\* gets an error from every endpoint that composes a URL, and no URL an
\* endpoint answers with has a placeholder of the mount prefix left in it.
C13_UnboundPrefixFails ==
    (/\ pc = "done"
     /\ request.endpoint \in UrlEndpoints
     /\ Valid(request)
     /\ ~ IOFailed) =>
        /\ PrefixNames \ DOMAIN request.path_params # {} => response.status = 500
        /\ response.status = 200 =>
              \A k \in PrefixNames :
                  ~ Contains(UrlPath(ComposedUrl), Placeholder(k))

\* C14: GET /map with an archive locator is answered with status 200 and a
\* text/html body rendered from the template index.html, whose one dynamic
\* value is the /style.json URL of the application carrying the request's
\* query parameters, the locator and every extra one.
C14_MapPage ==
    (/\ pc = "done"
     /\ origin.asked = MapPath
     /\ QueryHas(request.query, UrlKey)) =>
        /\ response.status = 200
        /\ response.media_type = "text/html"
        /\ DOMAIN response.body = {"name", "style_endpoint"}
        /\ response.body["name"] = "index.html"
        /\ UrlPath(response.body["style_endpoint"]) =
              replace_params(mount, MountParams) \o FactoryRoutes["stylejson_endpoint"]
        /\ parse_qsl(UrlQuery(response.body["style_endpoint"])) = request.query

\* the page of C14 as the factory application serves it
C14_MapPageFactory == app = "factory" => C14_MapPage

\* the mount prefix with the request's value in the place of every parameter
\* segment, each segment after a "/"; nothing for an empty router_prefix
ExpectedPrefix ==
    IF router_prefix = <<>> THEN <<>>
    ELSE LET segments == Split(LStrip(router_prefix, "/"), "/")
         IN Concat([i \in 1..Len(segments) |->
                <<"/">> \o (IF segments[i] # <<>> /\ Head(segments[i]) = "{"
                            THEN request.path_params[segments[i][2]]
                            ELSE segments[i])])

\* the path of the target route with the arguments the endpoint passes: the
\* tile route with its tokens, or the style route
ExpectedTarget ==
    IF request.endpoint = "map_endpoint"
    THEN <<"/", "s", "t", "y", "l", "e", ".", "j", "s", "o", "n">>
    ELSE <<"/", "t", "i", "l", "e", "s", "/", "{", "z", "}", "/", "{", "x", "}",
           "/", "{", "y", "}">>

\* C15: for a request that binds the parameters of the mount prefix, the URL
\* url_for composes is the base URL, then the mount prefix with the request's
\* own path parameters substituted, then the target path with its {z}, {x},
\* {y} arguments as literal tokens; with an empty mount prefix it is the base
\* URL and the target path.
C15_UrlFor ==
    (Answered(UrlEndpoints) /\ PrefixNames \subseteq DOMAIN request.path_params) =>
        /\ SubSeq(ComposedUrl, 1, Len(Origin)) = Origin
        /\ UrlPath(ComposedUrl) = ExpectedPrefix \o ExpectedTarget
        /\ router_prefix = <<>> => UrlPath(ComposedUrl) = ExpectedTarget

\* a tile URL template composed under the mount prefix /c/{i} for a request
\* that binds i to 7
C15_Witness ==
    /\ Answered({"tilejson_endpoint"})
    /\ router_prefix = <<"/", "c", "/", "{", "i", "}">>
    /\ "i" \in DOMAIN request.path_params
    /\ request.path_params["i"] = <<"7">>
    /\ UrlPath(ComposedUrl) =
          <<"/", "c", "/", "7", "/", "t", "i", "l", "e", "s", "/", "{", "z", "}",
            "/", "{", "x", "}", "/", "{", "y", "}">>

\* C16: when the ids of the metadata's vector-layer descriptors are pairwise
\* distinct, the ids of the layers of the StyleJSON (basemap and every
\* {id}_fill, {id}_stroke, {id}_point, or basemap and raster) are pairwise
\* distinct, also for descriptor ids that end in a suffix or are "basemap".
C16_DistinctLayerIds ==
    (/\ Answered(StyleEndpoints)
     /\ \A i, j \in 1..Len(VectorLayers) :
           i # j => VectorLayers[i]["id"] # VectorLayers[j]["id"]) =>
        \A i, j \in 1..Len(StyleLayers) :
            i # j => StyleLayers[i]["id"] # StyleLayers[j]["id"]

\* a style of the descriptors roads_fill and basemap
C16_Witness ==
    /\ Answered(StyleEndpoints)
    /\ archive.is_vector
    /\ Len(VectorLayers) = 2
    /\ VectorLayers[1]["id"] = "roads_fill"
    /\ VectorLayers[2]["id"] = "basemap"
    /\ Len(StyleLayers) = 7
    /\ StyleLayers[2]["id"] = "roads_fill_fill"
    /\ StyleLayers[5]["id"] = "basemap_fill"
====
